---- MODULE Spec2Model ----
(***************************************************************************)
(* McCabe-Thiele stage stepping of src/main.py.                            *)
(*                                                                         *)
(* Numbers.  The program computes in IEEE doubles (Python floats and, from *)
(* the first np.sqrt on, numpy float64 scalars).  A composition v is       *)
(* modelled as the integer round(v * Scale); NaN, +inf and -inf are three  *)
(* reserved integers outside the finite range.  Every arithmetic operator  *)
(* rounds to the nearest representable value and follows the numpy scalar  *)
(* rules for the special values: x/0 is +-inf, 0/0 and inf-inf are NaN,    *)
(* sqrt of a negative number is NaN, and every ordered comparison with NaN *)
(* is false.  No operation of the modelled lines raises an exception.      *)
(* The grid has a single zero, taken as +0.0 when it is a divisor; every   *)
(* zero divisor the modelled inputs produce divides 0, which is NaN        *)
(* whatever the sign of the zero.                                          *)
(***************************************************************************)
EXTENDS Integers, Sequences, FiniteSets

\* resolution of the fixed-point grid: one unit is 1/Scale
Scale == 1000
\* largest value the step counter may take in the model
MaxSteps == 30

One == Scale
Frac(n, d) == (n * Scale) \div d

NaN == 2000000000
PInf == 1000000000
NInf == -PInf

IsNaN(a) == a = NaN
IsInf(a) == a = PInf \/ a = NInf
IsFinite(a) == ~IsNaN(a) /\ ~IsInf(a)

Sgn(a) == IF a < 0 THEN -1 ELSE 1
SignedInf(s) == IF s < 0 THEN NInf ELSE PInf

\* n / d rounded to the nearest integer, d # 0
RoundDiv(n, d) ==
    LET s  == Sgn(d)
        nn == n * s
        dd == d * s
    IN  (2 * nn + dd) \div (2 * dd)

FNeg(a) == IF IsNaN(a) THEN NaN ELSE -a

FAdd(a, b) ==
    IF IsNaN(a) \/ IsNaN(b) THEN NaN
    ELSE IF IsInf(a) THEN (IF IsInf(b) /\ b # a THEN NaN ELSE a)
    ELSE IF IsInf(b) THEN b
    ELSE a + b

FSub(a, b) == FAdd(a, FNeg(b))

FMul(a, b) ==
    IF IsNaN(a) \/ IsNaN(b) THEN NaN
    ELSE IF IsInf(a) \/ IsInf(b)
         THEN (IF a = 0 \/ b = 0 THEN NaN ELSE SignedInf(Sgn(a) * Sgn(b)))
    ELSE RoundDiv(a * b, Scale)

FDiv(a, b) ==
    IF IsNaN(a) \/ IsNaN(b) THEN NaN
    ELSE IF IsInf(a) THEN (IF IsInf(b) THEN NaN ELSE SignedInf(Sgn(a) * Sgn(b)))
    ELSE IF IsInf(b) THEN 0
    ELSE IF b = 0 THEN (IF a = 0 THEN NaN ELSE SignedInf(Sgn(a)))
    ELSE RoundDiv(a * Scale, b)

\* k * a for an integer literal k > 0 of the source (2 * a, 4 * a)
FTimes(k, a) == IF IsFinite(a) THEN k * a ELSE a

RECURSIVE ISqrtIter(_, _)
ISqrtIter(n, x) ==
    LET y == (x + (n \div x)) \div 2
    IN  IF y >= x THEN x ELSE ISqrtIter(n, y)

\* floor of the square root of n >= 0
ISqrt(n) == IF n = 0 THEN 0 ELSE ISqrtIter(n, n)

FSqrt(a) ==
    IF IsNaN(a) \/ a < 0 THEN NaN
    ELSE IF a = PInf THEN PInf
    ELSE LET n == a * Scale
             r == ISqrt(n)
         IN  IF n - r * r > r THEN r + 1 ELSE r

FGt(a, b) == ~IsNaN(a) /\ ~IsNaN(b) /\ a > b
FLt(a, b) == ~IsNaN(a) /\ ~IsNaN(b) /\ a < b
FLe(a, b) == ~IsNaN(a) /\ ~IsNaN(b) /\ a <= b

(***************************************************************************)
(* Equilibrium relation                                                    *)
(***************************************************************************)
eq(xa, relative_volatility, nm) ==
    LET ya == FDiv(FMul(relative_volatility, xa),
                   FAdd(One, FMul(FSub(relative_volatility, One), xa)))
    IN  FAdd(FMul(FSub(ya, xa), nm), xa)

eq2_a(relative_volatility, nm) ==
    FAdd(FSub(FSub(FMul(relative_volatility, nm), nm), relative_volatility), One)

eq2_b(ya, relative_volatility, nm) ==
    FSub(FSub(FAdd(FSub(FMul(ya, relative_volatility), ya), nm), One),
         FMul(relative_volatility, nm))

eq2_disc(ya, relative_volatility, nm) ==
    LET a == eq2_a(relative_volatility, nm)
        b == eq2_b(ya, relative_volatility, nm)
    IN  FSub(FMul(b, b), FMul(FTimes(4, a), ya))

eq2(ya, relative_volatility, nm) ==
    LET a == eq2_a(relative_volatility, nm)
        b == eq2_b(ya, relative_volatility, nm)
    IN  FDiv(FSub(FNeg(b), FSqrt(eq2_disc(ya, relative_volatility, nm))),
             FTimes(2, a))

(***************************************************************************)
(* Operating-line steps                                                    *)
(***************************************************************************)
stepping_ESOL(x1_in, y1_in, relative_volatility, R_in, xd_in, nm_in) ==
    LET x2_out == eq2(y1_in, relative_volatility, nm_in)
        y2_out == FAdd(FDiv(FMul(R_in, x2_out), FAdd(R_in, One)),
                       FDiv(xd_in, FAdd(R_in, One)))
    IN  <<x1_in, x2_out, y1_in, y2_out>>

stepping_SSOL(x1_in, y1_in, relative_volatility, qx, qy, xb_in, nm_in) ==
    LET x2_out == eq2(y1_in, relative_volatility, nm_in)
        m      == FDiv(FSub(xb_in, qy), FSub(xb_in, qx))
        c      == FSub(qy, FMul(m, qx))
        y2_out == FAdd(FMul(m, x2_out), c)
    IN  <<x1_in, x2_out, y1_in, y2_out>>

(***************************************************************************)
(* Minimum reflux and the actual operating lines                           *)
(***************************************************************************)
qline_a(al_in, nm_in, q_in) ==
    FSub(FAdd(FSub(FAdd(FSub(FDiv(FMul(al_in, q_in), FSub(q_in, One)), al_in),
                        FMul(al_in, nm_in)),
                   FDiv(q_in, FSub(q_in, One))),
              One),
         nm_in)

qline_b(al_in, nm_in, q_in, xf_in) ==
    FSub(FSub(FAdd(FAdd(FSub(FDiv(q_in, FSub(q_in, One)), One), nm_in),
                   FDiv(FMul(al_in, xf_in), FSub(One, q_in))),
              FDiv(xf_in, FSub(One, q_in))),
         FMul(al_in, nm_in))

qline_c(q_in, xf_in) == FDiv(xf_in, FSub(One, q_in))

q_eqX_of(al_in, nm_in, q_in, xf_in) ==
    LET a  == qline_a(al_in, nm_in, q_in)
        b  == qline_b(al_in, nm_in, q_in, xf_in)
        c  == qline_c(q_in, xf_in)
        rt == FSqrt(FSub(FMul(b, b), FMul(FTimes(4, a), c)))
    IN  IF q_in > One
        THEN FDiv(FAdd(FNeg(b), rt), FTimes(2, a))
        ELSE FDiv(FSub(FNeg(b), rt), FTimes(2, a))

theta_min_of(xd_in, qx, qy) ==
    FMul(xd_in, FSub(One, FDiv(FSub(xd_in, qy), FSub(xd_in, qx))))

R_min_of(xd_in, th_min) == FSub(FDiv(xd_in, th_min), One)

theta_of(xd_in, R_in) == FDiv(xd_in, FAdd(R_in, One))

ESOL_q_x_of(th, q_in, xf_in, xd_in) ==
    FDiv(FSub(th, FDiv(xf_in, FSub(One, q_in))),
         FSub(FDiv(q_in, FSub(q_in, One)), FDiv(FSub(xd_in, th), xd_in)))

ESOL_q_y_of(ex, th, xd_in) ==
    FAdd(FMul(ex, FDiv(FSub(xd_in, th), xd_in)), th)

(***************************************************************************)
(* Inputs of one run.  Lines 170-173 move q off 0 and 1 by 1e-8, which is  *)
(* below the resolution of the grid; Qs holds neither value, so the two    *)
(* branches are not taken on any modelled input.  The first group is       *)
(* inside the documented ranges (alpha > 1, 0 < eta <= 1, xb < xf < xd in  *)
(* [0,1], reflux factor > 1); the wide group adds alpha < 1, xd = 0 and a  *)
(* reflux factor below 1, which the form accepts just the same.            *)
(***************************************************************************)
Alphas   == {Frac(2, 1), Frac(3, 1)}
Etas     == {Frac(4, 5), One}
Qs       == {Frac(1, 2), Frac(3, 2)}
Xfs      == {Frac(1, 2)}
Xds      == {Frac(9, 10), One}
Xbs      == {Frac(1, 10)}
RFactors == {Frac(3, 2)}

AlphasWide   == Alphas \cup {Frac(1, 2)}
XdsWide      == Xds \cup {0}
RFactorsWide == RFactors \cup {Frac(1, 2)}

\* inputs of the eq / eq2 round trip
RtXs     == {Frac(k, 10) : k \in 1..9}
RtAlphas == {Frac(1, 2), Frac(3, 2), Frac(2, 1), Frac(3, 1)}
RtEtas   == {Frac(1, 2), Frac(4, 5), One}

VARIABLES pc, relative_volatility, nm, q, xf, xd, xb, R_factor,
          q_eqX, q_eqy, theta_min, R_min, R, theta, ESOL_q_x, ESOL_q_y,
          x1, x2, y1, y2, step_count, feed_stage, xb_actual, stages, segs,
          rt_pc, rt_x, rt_y, rt_back

inputs  == <<relative_volatility, nm, q, xf, xd, xb, R_factor>>
derived == <<q_eqX, q_eqy, theta_min, R_min, R, theta, ESOL_q_x, ESOL_q_y>>
point   == <<x1, x2, y1, y2>>
outputs == <<feed_stage, xb_actual, stages>>
rtvars  == <<rt_pc, rt_x, rt_y, rt_back>>
vars    == <<pc, inputs, derived, point, step_count, outputs, segs, rtvars>>

NotYet ==
    /\ q_eqX = 0 /\ q_eqy = 0 /\ theta_min = 0 /\ R_min = 0 /\ R = 0
    /\ theta = 0 /\ ESOL_q_x = 0 /\ ESOL_q_y = 0
    /\ x1 = 0 /\ x2 = 0 /\ y1 = 0 /\ y2 = 0
    /\ step_count = 0 /\ feed_stage = 0 /\ xb_actual = 0 /\ stages = 0
    /\ segs = <<>>

Init ==
    /\ pc = "start"
    /\ relative_volatility \in Alphas
    /\ nm \in Etas
    /\ q \in Qs
    /\ xf \in Xfs
    /\ xd \in Xds
    /\ xb \in Xbs
    /\ R_factor \in RFactors
    /\ NotYet
    /\ rt_pc = "off" /\ rt_x = 0 /\ rt_y = 0 /\ rt_back = 0

\* lines 184-206
Setup ==
    /\ pc = "start"
    /\ LET qx  == q_eqX_of(relative_volatility, nm, q, xf)
           qy  == eq(qx, relative_volatility, nm)
           thm == theta_min_of(xd, qx, qy)
           rm  == R_min_of(xd, thm)
           r   == FMul(R_factor, rm)
           th  == theta_of(xd, r)
           ex  == ESOL_q_x_of(th, q, xf, xd)
       IN  /\ q_eqX' = qx
           /\ q_eqy' = qy
           /\ theta_min' = thm
           /\ R_min' = rm
           /\ R' = r
           /\ theta' = th
           /\ ESOL_q_x' = ex
           /\ ESOL_q_y' = ESOL_q_y_of(ex, th, xd)
    /\ pc' = "first"
    /\ UNCHANGED <<inputs, point, step_count, outputs, segs, rtvars>>

\* lines 225-229
FirstStep ==
    /\ pc = "first"
    /\ LET s == stepping_ESOL(xd, xd, relative_volatility, R, xd, nm)
       IN  /\ x1' = s[1] /\ x2' = s[2] /\ y1' = s[3] /\ y2' = s[4]
           /\ segs' = Append(segs, s)
    /\ step_count' = 1
    /\ pc' = "rect"
    /\ UNCHANGED <<inputs, derived, outputs, rtvars>>

\* lines 230-235, one iteration of the rectifying loop
RectStep ==
    /\ pc = "rect"
    /\ FGt(x2, ESOL_q_x)
    /\ step_count < MaxSteps
    /\ LET s == stepping_ESOL(x2, y2, relative_volatility, R, xd, nm)
       IN  /\ x1' = s[1] /\ x2' = s[2] /\ y1' = s[3] /\ y2' = s[4]
           /\ segs' = Append(segs, s)
    /\ step_count' = step_count + 1
    /\ UNCHANGED <<pc, inputs, derived, outputs, rtvars>>

\* variant: the loop's last endpoint is handed on instead
TransitionArgsEndpoint == <<x2, y2>>

\* the point handed to the first stepping_SSOL call, line 239
TransitionArgs == <<x1, y1>>

\* lines 230 (loop exit), 237-242
FeedStage ==
    /\ pc = "rect"
    /\ ~FGt(x2, ESOL_q_x)
    /\ feed_stage' = step_count
    /\ LET s == stepping_SSOL(TransitionArgs[1], TransitionArgs[2],
                              relative_volatility, ESOL_q_x, ESOL_q_y, xb, nm)
       IN  /\ x1' = s[1] /\ x2' = s[2] /\ y1' = s[3] /\ y2' = s[4]
           /\ segs' = Append(segs, s)
    /\ step_count' = step_count + 1
    /\ pc' = "strip"
    /\ UNCHANGED <<inputs, derived, xb_actual, stages, rtvars>>

\* lines 243-249, one iteration of the stripping loop
StripStep ==
    /\ pc = "strip"
    /\ FGt(x2, xb)
    /\ step_count < MaxSteps
    /\ LET s == stepping_SSOL(x2, y2, relative_volatility,
                              ESOL_q_x, ESOL_q_y, xb, nm)
       IN  /\ x1' = s[1] /\ x2' = s[2] /\ y1' = s[3] /\ y2' = s[4]
           /\ segs' = Append(segs, s)
    /\ step_count' = step_count + 1
    /\ UNCHANGED <<pc, inputs, derived, outputs, rtvars>>

\* variant: the duplicate transition step is discounted twice
StagesOfMinusTwo(count) == count - 2

StagesOf(count) == count - 1

\* lines 243 (loop exit), 250-252
Finish ==
    /\ pc = "strip"
    /\ ~FGt(x2, xb)
    /\ xb_actual' = x2
    /\ stages' = StagesOf(step_count)
    /\ pc' = "done"
    /\ UNCHANGED <<inputs, derived, point, step_count, feed_stage, segs, rtvars>>

Next == Setup \/ FirstStep \/ RectStep \/ FeedStage \/ StripStep \/ Finish

Spec == Init /\ [][Next]_vars

\* the same run on the wide input group
InitWide ==
    /\ pc = "start"
    /\ relative_volatility \in AlphasWide
    /\ nm \in Etas
    /\ q \in Qs
    /\ xf \in Xfs
    /\ xd \in XdsWide
    /\ xb \in Xbs
    /\ R_factor \in RFactorsWide
    /\ NotYet
    /\ rt_pc = "off" /\ rt_x = 0 /\ rt_y = 0 /\ rt_back = 0

SpecWide == InitWide /\ [][Next]_vars

(***************************************************************************)
(* eq followed by eq2 on one liquid composition                            *)
(***************************************************************************)
InitEq ==
    /\ pc = "start"
    /\ relative_volatility \in RtAlphas
    /\ nm \in RtEtas
    /\ q = Frac(1, 2) /\ xf = Frac(1, 2) /\ xd = Frac(9, 10)
    /\ xb = Frac(1, 10) /\ R_factor = Frac(3, 2)
    /\ NotYet
    /\ rt_pc = "x" /\ rt_x \in RtXs /\ rt_y = 0 /\ rt_back = 0

Forward ==
    /\ rt_pc = "x"
    /\ rt_y' = eq(rt_x, relative_volatility, nm)
    /\ rt_pc' = "y"
    /\ UNCHANGED <<pc, inputs, derived, point, step_count, outputs, segs,
                   rt_x, rt_back>>

Inverse ==
    /\ rt_pc = "y"
    /\ rt_back' = eq2(rt_y, relative_volatility, nm)
    /\ rt_pc' = "back"
    /\ UNCHANGED <<pc, inputs, derived, point, step_count, outputs, segs,
                   rt_x, rt_y>>

NextEq == Forward \/ Inverse

SpecEq == InitEq /\ [][NextEq]_vars

(***************************************************************************)
(* Properties                                                              *)
(***************************************************************************)
\* tolerance of the round trip, in grid units
RtTol == 2

FAbs(a) == IF IsNaN(a) THEN NaN ELSE IF a < 0 THEN -a ELSE a

Crossed   == pc \in {"strip", "done"}
StripFrom == feed_stage + 1
ValidInputs ==
    /\ relative_volatility > 0
    /\ nm > 0 /\ nm <= One
    /\ xb < xf /\ xf < xd
    /\ R_factor > One
DegenerateCurve(ya) ==
    \/ eq2_a(relative_volatility, nm) = 0
    \/ FLt(eq2_disc(ya, relative_volatility, nm), 0)

\* C1: no run loops forever: the engine is never about to repeat a loop
\* iteration whose guard holds and whose body maps the current point
\* (x2, y2) to itself, since such a loop never exits and no iteration cap
\* ends it with NonConvergent.
C1_NoEndlessLoop ==
    /\ ~(/\ pc = "rect"
         /\ FGt(x2, ESOL_q_x)
         /\ LET s == stepping_ESOL(x2, y2, relative_volatility, R, xd, nm)
            IN  s[2] = x2 /\ s[4] = y2)
    /\ ~(/\ pc = "strip"
         /\ FGt(x2, xb)
         /\ LET s == stepping_SSOL(x2, y2, relative_volatility,
                                   ESOL_q_x, ESOL_q_y, xb, nm)
            IN  s[2] = x2 /\ s[4] = y2)

\* C2: on every run that terminates normally, 1 <= feed_stage <= stages.
C2_FeedStageOrdering ==
    pc = "done" => (1 <= feed_stage /\ feed_stage <= stages)

C2_Witness == pc = "done" /\ feed_stage > 1 /\ stages > feed_stage

\* C3 as stated: the endpoint (x2, y2) of the last rectifying step, when it
\* is a pair of numbers, is the point passed to the first stripping step.
C3_EndpointPassed ==
    (Crossed /\ IsFinite(segs[feed_stage][2]) /\ IsFinite(segs[feed_stage][4]))
        => /\ segs[StripFrom][1] = segs[feed_stage][2]
           /\ segs[StripFrom][3] = segs[feed_stage][4]

\* C3 amended: the first stripping step is taken on every exit of the
\* rectifying loop, starts from the start point (x1, y1) of the last
\* rectifying step, and advances the stage counter by one.
C3_TransitionFromStartPoint ==
    Crossed => /\ Len(segs) >= StripFrom
               /\ segs[StripFrom][1] = segs[feed_stage][1]
               /\ segs[StripFrom][3] = segs[feed_stage][3]
               /\ step_count = Len(segs)
               /\ step_count >= feed_stage + 1

C3_Witness ==
    /\ pc = "strip" /\ Len(segs) = StripFrom /\ feed_stage > 1
    /\ IsFinite(x2) /\ IsFinite(y2)
    /\ segs[feed_stage][2] # segs[feed_stage][1]

\* C4: the rectifying phase starts at (xd, xd), each step starts where the
\* previous one ended, feed_stage counts the rectifying steps, the last of
\* them has x2 <= ESOL_q_x and every earlier one had x2 > ESOL_q_x.
C4_RectifyingPhase ==
    Crossed =>
        /\ segs[1][1] = xd /\ segs[1][3] = xd
        /\ feed_stage >= 1
        /\ \A i \in 1..(feed_stage - 1) :
              /\ FGt(segs[i][2], ESOL_q_x)
              /\ segs[i + 1][1] = segs[i][2]
              /\ segs[i + 1][3] = segs[i][4]
        /\ FLe(segs[feed_stage][2], ESOL_q_x)

\* C5: on every run that terminates normally, xb_actual is the x2 of the
\* last step taken, xb_actual <= xb, and every earlier stripping-phase step
\* produced x2 > xb.
C5_StrippingPhase ==
    pc = "done" =>
        /\ xb_actual = segs[Len(segs)][2]
        /\ FLe(xb_actual, xb)
        /\ \A i \in StripFrom..(Len(segs) - 1) : FGt(segs[i][2], xb)

\* C6: no step of the engine was produced by inverting a degenerate
\* quadratic (a = 0 or negative discriminant); such a call fails instead of
\* returning a value that the run carries on with.
C6_DegenerateCurveFails ==
    \A i \in 1..Len(segs) : ~DegenerateCurve(segs[i][3])

\* C7: the run gets past the minimum-reflux computation only when theta_min
\* and xd - q_eqX are non-zero and xd is not 1.0, and R_min is then finite.
C7_MinRefluxFails ==
    pc # "start" =>
        /\ theta_min # 0
        /\ FSub(xd, q_eqX) # 0
        /\ xd # One
        /\ IsFinite(R_min)

\* C8: for physically valid inputs every rectifying and every stripping step
\* produces x2 < x1 (the transition step, which repeats x2, aside).
C8_MonotonicStepping ==
    ValidInputs =>
        \A i \in 1..Len(segs) :
            (Crossed /\ i = StripFrom) \/ FLt(segs[i][2], segs[i][1])

\* C9: eq2(eq(x)) is x within the tolerance, for every x in (0,1), alpha > 0
\* and eta in (0,1].
C9_InverseConsistency ==
    rt_pc = "back" => FLe(FAbs(FSub(rt_back, rt_x)), RtTol)

\* C10: on every run that terminates normally, stages is feed_stage plus the
\* number of stripping-loop iterations, the transition step repeats the x2
\* of the last rectifying step, and stages is the number of distinct liquid
\* compositions below xd that the run generated.
C10_StagesCount ==
    pc = "done" =>
        /\ stages = feed_stage + (Len(segs) - StripFrom)
        /\ segs[StripFrom][2] = segs[feed_stage][2]
        /\ stages = Cardinality({segs[i][2] : i \in
                        {j \in 1..Len(segs) : FLt(segs[j][2], xd)}})

====
